---------------------------- MODULE Spec2Model ----------------------------
(***************************************************************************)
(* A model of src/rbtree.cpp: the red-black tree (class RBTree), the       *)
(* readers-writers monitor (class rw_monitor) and the thread orchestration *)
(* of main().                                                              *)
(*                                                                         *)
(* The specifications share the variables:                                 *)
(*   TreeSpec  one RBTree object driven by insert_node / delete_node /     *)
(*             search_tree calls;                                          *)
(*   SeqSpec   one empty RBTree object and a given sequence of inserts;    *)
(*   MonSpec   one rw_monitor used by free-running reader and writer       *)
(*             tasks (MonFairSpec adds the scheduler's fairness);          *)
(*   RunSpec   main(): bulk load, reader threads, writer threads, final    *)
(*             serialization.                                              *)
(***************************************************************************)
EXTENDS Integers, Sequences, FiniteSets, TLC

(***************************************************************************)
(* Bounds of the model.                                                    *)
(***************************************************************************)
MaxKey == 5

\* The longest sequence of inserts SeqSpec applies to an empty tree.
MaxSeqKey == 7

\* The largest key of the trees DelSpec deletes from.
MaxDelKey == 7

Keys == 1 .. MaxKey

\* One more cell than keys: a tree holding every key still leaves new node()
\* a cell to hand out.
MaxNodes ==
  (IF MaxKey >= MaxSeqKey /\ MaxKey >= MaxDelKey THEN MaxKey
   ELSE IF MaxSeqKey >= MaxDelKey THEN MaxSeqKey ELSE MaxDelKey) + 1

(***************************************************************************)
(* enum Color { red, black } and the node heap.                            *)
(***************************************************************************)
red == 0

black == 1

NULL == 0

Node == 1 .. MaxNodes

\* The content of a cell that is not allocated.  No code path of the model
\* reads a cell outside alloc without flagging it (see Dangling).
FreeCell == [key |-> 0, color |-> red, left |-> NULL, right |-> NULL, parent |-> NULL]

\* node::node(int key)
NewCell(k) == [key |-> k, color |-> red, left |-> NULL, right |-> NULL, parent |-> NULL]

VARIABLES
  root,      \* RBTree::root of the tree object under test (main's rbt in RunSpec)
  heap,      \* [Node -> cell]: the nodes created with new
  alloc,     \* the cells that are allocated (new'ed and not yet deleted)
  last,      \* RBTree::last: the key of the entry it points to, or Uninit
  lastOp,    \* the last completed tree call and what it returned
  applied,   \* the number of operations of input.modifiers applied (SeqSpec)
  num_readers,   \* rw_monitor::num_readers
  num_writers,   \* rw_monitor::num_writers
  readers_wait,  \* rw_monitor::readers_wait
  writers_wait,  \* rw_monitor::writers_wait
  pc,        \* [task -> where the task stands in its code]
  ev,        \* instrumentation: the last monitor step and what it saw and woke
  owed,      \* instrumentation: readers blocked on can_read when end_write
             \* last found readers_wait > 0, and not woken since
  input,     \* what the parser hands to main: io.tree, io.searchers,
             \* io.modifiers, io.worker_threads
  main,      \* main(): where it stands (pc), s_thread_count, m_thread_count
  tdata,     \* [tid -> the thread_data of the thread: op, its copy of rbt]
  results,   \* the shared results object: search_true, search_thread_ids, final_rbt
  ub,        \* the run has read a deleted node or an uninitialised pointer
  ref        \* instrumentation: the input tree with the executed writes applied
             \* in order to one tree object

treeVars == <<root, heap, alloc, last, lastOp, applied>>

runVars == <<input, main, tdata, results, ub, ref>>

monVars == <<num_readers, num_writers, readers_wait, writers_wait, pc, ev, owed>>

(***************************************************************************)
(* A tree state T is the record [root, h, alloc, rots, fault, dh, fdb]:    *)
(* the root member, the heap, the allocated cells, the number of rotations *)
(* performed so far in the current call (instrumentation), whether the     *)
(* call has dereferenced a NULL pointer, and instrumentation of            *)
(* delete_node: the number of delete_helper calls (dh) and the steps of    *)
(* fix_double_black (fdb).  The code of a call is written as a composition *)
(* of operators, one per statement group, each taking the tree state the   *)
(* statements before it have left.                                         *)
(***************************************************************************)
MkT(r, h, a, n) ==
  [root |-> r, h |-> h, alloc |-> a, rots |-> n, fault |-> FALSE, dh |-> 0, fdb |-> <<>>]

\* p->field with p == NULL: the call goes no further.
Fault(T) == [T EXCEPT !.fault = TRUE]

\* search_helper descending to the right on a smaller key too.
RECURSIVE search_helper_RightOnly(_, _, _)
search_helper_RightOnly(h, node, k) ==
  IF node = NULL \/ k = h[node].key THEN node
  ELSE search_helper_RightOnly(h, h[node].right, k)

\* RBTree::search_helper
RECURSIVE search_helper(_, _, _)
search_helper(h, node, k) ==
  IF node = NULL \/ k = h[node].key THEN node
  ELSE IF k < h[node].key THEN search_helper(h, h[node].left, k)
  ELSE search_helper(h, h[node].right, k)

\* RBTree::search_tree
search_tree(T, k) == search_helper(T.h, T.root, k)

\* insert_helper, 367-368: root->left = <the node returned>;
\* root->left->parent = root.  s is what the inner call returned.
InsertedLeft(s, r) ==
  [h |-> [s.h EXCEPT ![r].left = s.ret, ![s.ret].parent = r], ret |-> r]

\* insert_helper, 371-372
InsertedRight(s, r) ==
  [h |-> [s.h EXCEPT ![r].right = s.ret, ![s.ret].parent = r], ret |-> r]

\* RBTree::insert_helper: returns the heap and the returned node pointer.
RECURSIVE insert_helper(_, _, _)
insert_helper(h, r, node) ==
  IF r = NULL THEN [h |-> h, ret |-> node]
  ELSE IF h[node].key < h[r].key
    THEN InsertedLeft(insert_helper(h, h[r].left, node), r)
  ELSE IF h[node].key > h[r].key
    THEN InsertedRight(insert_helper(h, h[r].right, node), r)
  ELSE [h |-> h, ret |-> r]

\* rotate_right moving left->right under node without setting its parent.
RotateRightInner_NoParent(T, node, left) ==
  [T EXCEPT !.h[node].left = T.h[left].right]

\* rotate_right, 614-618: node->left = left->right and that node's parent.
RotateRightInner(T, node, left) ==
  IF T.h[left].right # NULL
    THEN [T EXCEPT !.h[node].left = T.h[left].right,
                   !.h[T.h[left].right].parent = node]
    ELSE [T EXCEPT !.h[node].left = NULL]

\* rotate_right, 620-630: left->parent = node->parent, and the link to
\* node in its parent, or root when node has none, becomes left.
RotateRightUp(T, node, left) ==
  IF T.h[node].parent = NULL
    THEN [T EXCEPT !.h[left].parent = NULL, !.root = left]
  ELSE IF node = T.h[T.h[node].parent].left
    THEN [T EXCEPT !.h[left].parent = T.h[node].parent,
                   !.h[T.h[node].parent].left = left]
  ELSE [T EXCEPT !.h[left].parent = T.h[node].parent,
                 !.h[T.h[node].parent].right = left]

\* rotate_right, 632-633: left->right = node; node->parent = left.
RotateRightDown(T, node, left) ==
  [T EXCEPT !.h[left].right = node, !.h[node].parent = left, !.rots = @ + 1]

\* RBTree::rotate_right(root, node); left->right reads through node->left.
rotate_right(T, node) ==
  IF T.fault THEN T
  ELSE IF node = NULL THEN Fault(T)
  ELSE IF T.h[node].left = NULL THEN Fault(T)
  ELSE RotateRightDown(
         RotateRightUp(RotateRightInner(T, node, T.h[node].left),
                       node, T.h[node].left),
         node, T.h[node].left)

\* rotate_left, 643-647
RotateLeftInner(T, node, right) ==
  IF T.h[right].left # NULL
    THEN [T EXCEPT !.h[node].right = T.h[right].left,
                   !.h[T.h[right].left].parent = node]
    ELSE [T EXCEPT !.h[node].right = NULL]

\* rotate_left leaving the root member as it is.
RotateLeftUp_KeepRoot(T, node, right) ==
  IF T.h[node].parent = NULL
    THEN [T EXCEPT !.h[right].parent = NULL]
  ELSE IF node = T.h[T.h[node].parent].left
    THEN [T EXCEPT !.h[right].parent = T.h[node].parent,
                   !.h[T.h[node].parent].left = right]
  ELSE [T EXCEPT !.h[right].parent = T.h[node].parent,
                 !.h[T.h[node].parent].right = right]

\* rotate_left, 649-659
RotateLeftUp(T, node, right) ==
  IF T.h[node].parent = NULL
    THEN [T EXCEPT !.h[right].parent = NULL, !.root = right]
  ELSE IF node = T.h[T.h[node].parent].left
    THEN [T EXCEPT !.h[right].parent = T.h[node].parent,
                   !.h[T.h[node].parent].left = right]
  ELSE [T EXCEPT !.h[right].parent = T.h[node].parent,
                 !.h[T.h[node].parent].right = right]

\* rotate_left, 661-662
RotateLeftDown(T, node, right) ==
  [T EXCEPT !.h[right].left = node, !.h[node].parent = right, !.rots = @ + 1]

\* RBTree::rotate_left(root, node)
rotate_left(T, node) ==
  IF T.fault THEN T
  ELSE IF node = NULL THEN Fault(T)
  ELSE IF T.h[node].right = NULL THEN Fault(T)
  ELSE RotateLeftDown(
         RotateLeftUp(RotateLeftInner(T, node, T.h[node].right),
                      node, T.h[node].right),
         node, T.h[node].right)

\* n->color = c
SetColor(T, n, c) ==
  IF T.fault THEN T
  ELSE IF n = NULL THEN Fault(T)
  ELSE [T EXCEPT !.h[n].color = c]

\* to->color = from->color
CopyColor(T, to, from) ==
  IF T.fault THEN T
  ELSE IF to = NULL \/ from = NULL THEN Fault(T)
  ELSE [T EXCEPT !.h[to].color = T.h[from].color]

RECURSIVE fix_insert_loop(_, _)

\* The uncle-is-red branch of fix_insert (both sides): 683-686, 705-708.
FixInsertRecolor(T, parent, grand_parent, uncle) ==
  SetColor(SetColor(SetColor(T, grand_parent, red), parent, black), uncle, black)

\* fix_insert, 689-693: if (node == parent->right) rotate_left(root, parent).
FixInsertLeftInner(T, node, parent) ==
  IF node = T.h[parent].right THEN rotate_left(T, parent) ELSE T

\* fix_insert, 711-715: if (node == parent->left) rotate_right(root, parent).
FixInsertRightInner(T, node, parent) ==
  IF node = T.h[parent].left THEN rotate_right(T, parent) ELSE T

\* The variable parent after 689-693 (711-715): when the rotation was made,
\* node = parent; parent = node->parent, read in the tree T the rotation left.
FixInsertParent(T, inner, parent) ==
  IF inner /\ ~T.fault THEN T.h[parent].parent ELSE parent

\* fix_insert, 695-698: rotate_right(root, grand_parent), the two colours,
\* node = parent, and the next turn of the loop.
FixInsertLeftOuter(T, parent, grand_parent) ==
  fix_insert_loop(
    SetColor(SetColor(rotate_right(T, grand_parent), parent, black), grand_parent, red),
    parent)

\* fix_insert, 717-720
FixInsertRightOuter(T, parent, grand_parent) ==
  fix_insert_loop(
    SetColor(SetColor(rotate_left(T, grand_parent), parent, black), grand_parent, red),
    parent)

\* The else branch of fix_insert when parent == grand_parent->left (688-699).
FixInsertLeft(T, node, parent, grand_parent) ==
  FixInsertLeftOuter(
    FixInsertLeftInner(T, node, parent),
    FixInsertParent(FixInsertLeftInner(T, node, parent), node = T.h[parent].right, parent),
    grand_parent)

\* The else branch of fix_insert when parent == grand_parent->right (710-721).
FixInsertRight(T, node, parent, grand_parent) ==
  FixInsertRightOuter(
    FixInsertRightInner(T, node, parent),
    FixInsertParent(FixInsertRightInner(T, node, parent), node = T.h[parent].left, parent),
    grand_parent)

\* One turn of the while loop of fix_insert (677-722).
fix_insert_turn(T, node, parent, grand_parent) ==
  IF parent = T.h[grand_parent].left THEN
    IF T.h[grand_parent].right # NULL /\ T.h[T.h[grand_parent].right].color = red
      THEN fix_insert_loop(
             FixInsertRecolor(T, parent, grand_parent, T.h[grand_parent].right),
             grand_parent)
      ELSE FixInsertLeft(T, node, parent, grand_parent)
  ELSE
    IF T.h[grand_parent].left # NULL /\ T.h[T.h[grand_parent].left].color = red
      THEN fix_insert_loop(
             FixInsertRecolor(T, parent, grand_parent, T.h[grand_parent].left),
             grand_parent)
      ELSE FixInsertRight(T, node, parent, grand_parent)

\* The while loop of RBTree::fix_insert (674-723).  Its condition reads
\* node->parent->color, and its body grand_parent->left, without a test
\* that node->parent and grand_parent are not NULL.
fix_insert_loop(T, node) ==
  IF T.fault THEN T
  ELSE IF node = T.root \/ T.h[node].color = black THEN T
  ELSE IF T.h[node].parent = NULL THEN Fault(T)
  ELSE IF T.h[T.h[node].parent].color # red THEN T
  ELSE IF T.h[T.h[node].parent].parent = NULL THEN Fault(T)
  ELSE fix_insert_turn(T, node, T.h[node].parent, T.h[T.h[node].parent].parent)

\* fix_insert, 725: root->color = black.
FixInsertRootBlack(T) == IF T.fault THEN T ELSE SetColor(T, T.root, black)

\* fix_insert without its last statement.
fix_insert_NoRootBlack(T, node) == fix_insert_loop(T, node)

\* RBTree::fix_insert: the loop, then root->color = black.
fix_insert(T, node) == FixInsertRootBlack(fix_insert_loop(T, node))

\* new node(key): the allocator hands out a free cell.
FreshNode(a) == CHOOSE n \in Node \ a : \A m \in Node \ a : n <= m

\* insert_node, 735: node_p npt = new node(key).
InsertAlloc(T, k, npt) ==
  [T EXCEPT !.h[npt] = NewCell(k), !.alloc = @ \cup {npt}]

\* insert_node, 737: root = insert_helper(root, npt); s is what the call
\* returned.
InsertLinked(T, s) == [T EXCEPT !.root = s.ret, !.h = s.h]

\* insert_node, 735-739, with npt the new node.
InsertNew(T, k, npt) ==
  fix_insert(
    InsertLinked(InsertAlloc(T, k, npt),
                 insert_helper(InsertAlloc(T, k, npt).h, T.root, npt)),
    npt)

\* insert_node allocating the node before it looks the key up.
insert_node_AllocFirst(T, k) ==
  IF search_tree(T, k) = NULL THEN InsertNew(T, k, FreshNode(T.alloc))
  ELSE InsertAlloc(T, k, FreshNode(T.alloc))

\* RBTree::insert_node
insert_node(T, k) ==
  IF search_tree(T, k) = NULL THEN InsertNew(T, k, FreshNode(T.alloc))
  ELSE T

\* RBTree::is_on_left; node->parent is not NULL.
is_on_left(h, node) == node = h[h[node].parent].left

\* RBTree::sibling; node is not NULL.
sibling(h, node) ==
  IF h[node].parent = NULL THEN NULL
  ELSE IF is_on_left(h, node) THEN h[h[node].parent].right
  ELSE h[h[node].parent].left

\* RBTree::red_child
red_child(h, node) ==
  \/ (h[node].left # NULL /\ h[h[node].left].color = red)
  \/ (h[node].right # NULL /\ h[h[node].right].color = red)

\* RBTree::min
RECURSIVE min(_, _)
min(h, node) == IF h[node].left # NULL THEN min(h, h[node].left) ELSE node

\* RBTree::swap_keys
swap_keys(T, u, v) ==
  [T EXCEPT !.h[u].key = T.h[v].key, !.h[v].key = T.h[u].key]

\* RBTree::replace
replace(h, node) ==
  IF h[node].left # NULL /\ h[node].right # NULL THEN min(h, h[node].right)
  ELSE IF h[node].left = NULL /\ h[node].right = NULL THEN NULL
  ELSE IF h[node].left # NULL THEN h[node].left
  ELSE h[node].right

RECURSIVE fix_double_black(_, _)

\* The number of parent links from n up to the node that has no parent.
RECURSIVE Depth(_, _, _)
Depth(h, n, fuel) ==
  IF h[n].parent = NULL \/ fuel = 0 THEN 0 ELSE 1 + Depth(h, h[n].parent, fuel - 1)

\* Instrumentation: fix_double_black(node) takes the branch kind.
Step(T, kind, node) ==
  [T EXCEPT !.fdb = Append(@, [kind |-> kind, node |-> node,
                               depth |-> Depth(T.h, node, MaxNodes)])]

\* if (is_on_left(sib)) rotate_right(root, parent); else rotate_left(root,
\* parent)  (394-399); is_on_left reads sib->parent->left.
FixDBRotate(T, sib, parent) ==
  IF T.fault THEN T
  ELSE IF T.h[sib].parent = NULL THEN Fault(T)
  ELSE IF is_on_left(T.h, sib) THEN rotate_right(T, parent)
  ELSE rotate_left(T, parent)

\* fix_double_black, sibling red (391-400): recolour and rotate at the parent
\* towards the node; the caller then repairs the same node again.
FixDBRedSibling(T, sib, parent) ==
  FixDBRotate(SetColor(SetColor(T, parent, red), sib, black), sib, parent)

\* The red-child case without its two-rotation sub-cases.
FixDBRedNephew_SingleRotation(T, sib, parent) ==
  SetColor(FixDBRotate(T, sib, parent), parent, black)

\* fix_double_black, sibling black with a red child: the four sub-cases
\* (404-426).
FixDBRedNephewRotate(T, sib, parent) ==
  IF T.h[sib].left # NULL /\ T.h[T.h[sib].left].color = red THEN
    IF is_on_left(T.h, sib)
      THEN rotate_right(CopyColor(CopyColor(T, T.h[sib].left, sib), sib, parent), parent)
      ELSE rotate_left(rotate_right(CopyColor(T, T.h[sib].left, parent), sib), parent)
  ELSE
    IF is_on_left(T.h, sib)
      THEN rotate_right(rotate_left(CopyColor(T, T.h[sib].right, parent), sib), parent)
      ELSE rotate_left(CopyColor(CopyColor(T, T.h[sib].right, sib), sib, parent), parent)

\* The red-child case going on to repair the parent.
FixDBRedNephew_ThenParent(T, sib, parent) ==
  IF T.h[sib].parent = NULL THEN Fault(T)
  ELSE fix_double_black(
         SetColor(FixDBRedNephewRotate(T, sib, parent), parent, black), parent)

\* fix_double_black, sibling black with a red child (403-429).
FixDBRedNephew(T, sib, parent) ==
  IF T.h[sib].parent = NULL THEN Fault(T)
  ELSE SetColor(FixDBRedNephewRotate(T, sib, parent), parent, black)

\* fix_double_black, 431-437, after sib->color = red.
FixDBBlackSibling(T, parent) ==
  IF T.fault THEN T
  ELSE IF T.h[parent].color = black THEN fix_double_black(T, parent)
  ELSE SetColor(T, parent, black)

\* fix_double_black, 386-440, with sib = sibling(node), parent = node->parent.
fix_double_black_cases(T, node, sib, parent) ==
  IF sib = NULL THEN fix_double_black(Step(T, "no_sibling", node), parent)
  ELSE IF T.h[sib].color = red
    THEN fix_double_black(FixDBRedSibling(Step(T, "red_sibling", node), sib, parent), node)
  ELSE IF red_child(T.h, sib)
    THEN FixDBRedNephew(Step(T, "red_child", node), sib, parent)
  ELSE FixDBBlackSibling(SetColor(Step(T, "black_sibling", node), sib, red), parent)

\* RBTree::fix_double_black; sibling(node) reads node->parent.
fix_double_black(T, node) ==
  IF T.fault THEN T
  ELSE IF node = T.root THEN T
  ELSE IF node = NULL THEN Fault(T)
  ELSE fix_double_black_cases(T, node, sibling(T.h, node), T.h[node].parent)

\* delete n
Free(T, n) ==
  IF T.fault THEN T
  ELSE [T EXCEPT !.h[n] = FreeCell, !.alloc = @ \ {n}]

\* The leaf case setting the sibling black.
DeleteLeafFix_SiblingBlack(T, n, bb) ==
  IF bb THEN fix_double_black(T, n)
  ELSE IF sibling(T.h, n) # NULL THEN SetColor(T, sibling(T.h, n), black)
  ELSE T

\* delete_helper, 539-546: the repair before a leaf that is not the root is
\* unlinked.
DeleteLeafFix(T, n, bb) ==
  IF bb THEN fix_double_black(T, n)
  ELSE IF sibling(T.h, n) # NULL THEN SetColor(T, sibling(T.h, n), red)
  ELSE T

\* delete_helper, 548-553: is_on_left(n) reads n->parent->left, and the link
\* is cleared in the node that was n's parent when delete_helper began.
DeleteLeafUnlink(T, n, parent) ==
  IF T.fault THEN T
  ELSE IF T.h[n].parent = NULL \/ parent = NULL THEN Fault(T)
  ELSE IF is_on_left(T.h, n) THEN [T EXCEPT !.h[parent].left = NULL]
  ELSE [T EXCEPT !.h[parent].right = NULL]

\* delete_helper, m == NULL (534-557): n has no child.
DeleteLeaf(T, n, bb, parent) ==
  IF n = T.root THEN Free([T EXCEPT !.root = NULL], n)
  ELSE Free(DeleteLeafUnlink(DeleteLeafFix(T, n, bb), n, parent), n)

\* delete_helper linking m under parent without setting m's parent.
DeleteOneChildLink_NoParent(T, n, m, parent) ==
  IF parent = NULL THEN Fault(T)
  ELSE IF is_on_left(T.h, n)
    THEN Free([T EXCEPT !.h[parent].left = m], n)
  ELSE Free([T EXCEPT !.h[parent].right = m], n)

\* delete_helper, 566-574: m takes n's place under parent, n is deleted.
DeleteOneChildLink(T, n, m, parent) ==
  IF parent = NULL THEN Fault(T)
  ELSE IF is_on_left(T.h, n)
    THEN Free([T EXCEPT !.h[parent].left = m, !.h[m].parent = parent], n)
  ELSE Free([T EXCEPT !.h[parent].right = m, !.h[m].parent = parent], n)

\* delete_helper, n has exactly one child m (559-583).
DeleteOneChild(T, n, m, bb, parent) ==
  IF n = T.root
    THEN Free([T EXCEPT !.h[n].key = T.h[m].key, !.h[n].left = NULL,
                        !.h[n].right = NULL], m)
  ELSE IF bb THEN fix_double_black(DeleteOneChildLink(T, n, m, parent), m)
  ELSE SetColor(DeleteOneChildLink(T, n, m, parent), m, black)

RECURSIVE delete_helper(_, _)

\* delete_helper after node_p m = replace(n): bb (531) and parent (532) are
\* read from the tree as it is then.
delete_helper_with(T, n, m) ==
  IF m = NULL
    THEN DeleteLeaf(T, n, T.h[n].color = black, T.h[n].parent)
  ELSE IF T.h[n].left = NULL \/ T.h[n].right = NULL
    THEN DeleteOneChild(T, n, m, T.h[m].color = black /\ T.h[n].color = black,
                        T.h[n].parent)
  ELSE delete_helper(swap_keys(T, m, n), m)

\* RBTree::delete_helper
delete_helper(T, n) ==
  delete_helper_with([T EXCEPT !.dh = @ + 1], n, replace(T.h, n))

\* delete_node deleting the root when it does not find the key.
delete_node_RootWhenMissing(T, k) ==
  IF T.root = NULL THEN T
  ELSE IF search_tree(T, k) = NULL THEN delete_helper(T, T.root)
  ELSE delete_helper(T, search_tree(T, k))

\* RBTree::delete_node
delete_node(T, k) ==
  IF T.root = NULL THEN T
  ELSE IF search_tree(T, k) = NULL THEN T
  ELSE delete_helper(T, search_tree(T, k))

(***************************************************************************)
(* What the tree holds, read off the links from the root.                  *)
(***************************************************************************)
\* The nodes reachable from n over left/right links.  Fuel bounds the walk
\* so that it ends on a cyclic heap too.
RECURSIVE ReachFrom(_, _, _)
ReachFrom(h, n, fuel) ==
  IF n = NULL \/ fuel = 0 THEN {}
  ELSE {n} \cup ReachFrom(h, h[n].left, fuel - 1) \cup ReachFrom(h, h[n].right, fuel - 1)

Reach(h, r) == ReachFrom(h, r, MaxNodes + 1)

\* RBTree::in_order_helper: the keys in left-node-right order.
RECURSIVE InOrderFrom(_, _, _)
InOrderFrom(h, n, fuel) ==
  IF n = NULL \/ fuel = 0 THEN <<>>
  ELSE InOrderFrom(h, h[n].left, fuel - 1) \o <<h[n].key>>
       \o InOrderFrom(h, h[n].right, fuel - 1)

in_order(h, r) == InOrderFrom(h, r, MaxNodes + 1)

KeySet(h, r) == {h[n].key : n \in Reach(h, r)}

\* The tree below n as a value without cell numbers: <<>> for an absent
\* child, else <<key, color, left, right>>.
RECURSIVE Shape(_, _, _)
Shape(h, n, fuel) ==
  IF n = NULL \/ fuel = 0 THEN <<>>
  ELSE <<h[n].key, h[n].color, Shape(h, h[n].left, fuel - 1), Shape(h, h[n].right, fuel - 1)>>

ShapeOf(h, r) == Shape(h, r, MaxNodes + 1)

(***************************************************************************)
(* The red-black invariants of the data model.                             *)
(***************************************************************************)
ColorOf(h, n) == IF n = NULL THEN black ELSE h[n].color

\* 1. every node is red or black
Inv1Colors(h, r) == \A n \in Reach(h, r) : h[n].color \in {red, black}

\* 2. the root is black, or the tree is empty
Inv2RootBlack(h, r) == r = NULL \/ h[r].color = black

\* 3. a red node has no red child
Inv3NoRedRed(h, r) ==
  \A n \in Reach(h, r) :
    h[n].color = red => ColorOf(h, h[n].left) = black /\ ColorOf(h, h[n].right) = black

\* The number of black nodes on every path from n down to an absent child,
\* or -1 when two paths differ.
RECURSIVE BlackHeight(_, _, _)
BlackHeight(h, n, fuel) ==
  IF n = NULL THEN 0
  ELSE IF fuel = 0 THEN -1
  ELSE LET l == BlackHeight(h, h[n].left, fuel - 1)
           r == BlackHeight(h, h[n].right, fuel - 1)
       IN IF l = -1 \/ r = -1 \/ l # r THEN -1
          ELSE l + (IF h[n].color = black THEN 1 ELSE 0)

\* 4. equal black-height on every path
Inv4BlackHeight(h, r) == BlackHeight(h, r, MaxNodes + 1) # -1

\* The keys below n lie strictly between lo and hi, and so on recursively.
RECURSIVE IsBST(_, _, _, _, _)
IsBST(h, n, lo, hi, fuel) ==
  IF n = NULL THEN TRUE
  ELSE IF fuel = 0 THEN FALSE
  ELSE /\ lo < h[n].key /\ h[n].key < hi
       /\ IsBST(h, h[n].left, lo, h[n].key, fuel - 1)
       /\ IsBST(h, h[n].right, h[n].key, hi, fuel - 1)

\* 5. binary-search-tree ordering with unique keys
Inv5BST(h, r) == IsBST(h, r, 0, MaxKey + 1, MaxNodes + 1)

RBValid(h, r) ==
  /\ Inv1Colors(h, r)
  /\ Inv2RootBlack(h, r)
  /\ Inv3NoRedRed(h, r)
  /\ Inv4BlackHeight(h, r)
  /\ Inv5BST(h, r)

IsSorted(s) == \A i \in 1 .. Len(s) - 1 : s[i] < s[i + 1]

SeqSet(s) == {s[i] : i \in 1 .. Len(s)}

\* The heap before any node has been created.
EmptyHeap == [n \in Node |-> FreeCell]

(***************************************************************************)
(* Bulk load.  The input is the vector<tmp_node_p> that parse_tree_line    *)
(* leaves: one entry [key, color] per token, with key -1 for an `f` token. *)
(***************************************************************************)
FKey == -1

FEntry == [key |-> FKey, color |-> black]

\* RBTree::last before build_tree has assigned it (an uninitialised pointer).
Uninit == -2

\* RBTree::build_tree_helper: returns the heap, the allocated cells and the
\* returned node pointer.
RECURSIVE build_tree_helper(_, _, _, _)
build_tree_helper(h, a, n, curr) ==
  IF n = NULL THEN
    LET c == FreshNode(a)
    IN [h |-> [h EXCEPT ![c] = [NewCell(curr.key) EXCEPT !.color = curr.color]],
        alloc |-> a \cup {c}, ret |-> c]
  ELSE IF curr.key > h[n].key THEN
    LET s  == build_tree_helper(h, a, h[n].right, curr)
        h1 == [s.h EXCEPT ![n].right = s.ret]
        h2 == [h1 EXCEPT ![h1[n].right].parent = n]
    IN [h |-> h2, alloc |-> s.alloc, ret |-> n]
  ELSE
    LET s  == build_tree_helper(h, a, h[n].left, curr)
        h1 == [s.h EXCEPT ![n].left = s.ret]
        h2 == [h1 EXCEPT ![h1[n].left].parent = n]
    IN [h |-> h2, alloc |-> s.alloc, ret |-> n]

\* The while loop of RBTree::build_tree (817-824) from entry i on: B is the
\* record [root, h, alloc, last].
RECURSIVE build_tree_loop(_, _, _)
build_tree_loop(B, tmp_tree, i) ==
  IF i > Len(tmp_tree) THEN B
  ELSE IF tmp_tree[i].key # FKey THEN
    LET s == build_tree_helper(B.h, B.alloc, B.root, tmp_tree[i])
    IN build_tree_loop([root |-> B.root, h |-> s.h, alloc |-> s.alloc,
                        last |-> tmp_tree[i].key], tmp_tree, i + 1)
  ELSE build_tree_loop(B, tmp_tree, i + 1)

\* RBTree::RBTree(vector<tmp_node_p>) followed by RBTree::build_tree, for a
\* non-empty input: the first entry becomes the root.
build_tree(tmp_tree) ==
  LET s == build_tree_helper(EmptyHeap, {}, NULL, tmp_tree[1])
  IN build_tree_loop([root |-> s.ret, h |-> s.h, alloc |-> s.alloc, last |-> Uninit],
                     tmp_tree, 2)

(***************************************************************************)
(* The inputs: every valid red-black tree over Keys, as a value            *)
(* <<key, color, left, right>> (<<>> for an absent child), and its         *)
(* pre-order entry sequence with an f entry for each absent child.         *)
(***************************************************************************)
\* The red-black trees with keys in lo..hi and black-height bh; a red root
\* only if canRed.
RECURSIVE RBTrees(_, _, _, _)
RBTrees(lo, hi, bh, canRed) ==
  LET blackRoot ==
        IF bh = 0 THEN {}
        ELSE UNION {{<<k, black, l, r>> : l \in RBTrees(lo, k - 1, bh - 1, TRUE),
                                          r \in RBTrees(k + 1, hi, bh - 1, TRUE)}
                    : k \in lo .. hi}
      redRoot ==
        IF ~canRed THEN {}
        ELSE UNION {{<<k, red, l, r>> : l \in RBTrees(lo, k - 1, bh, FALSE),
                                        r \in RBTrees(k + 1, hi, bh, FALSE)}
                    : k \in lo .. hi}
  IN (IF bh = 0 THEN {<<>>} ELSE {}) \cup blackRoot \cup redRoot

\* The non-empty valid trees (black root).
ValidTrees == UNION {RBTrees(1, MaxKey, bh, FALSE) : bh \in 1 .. MaxKey}

\* The entries of a tree in parent-left-right order.
RECURSIVE PreOrderEntries(_)
PreOrderEntries(t) ==
  IF t = <<>> THEN <<FEntry>>
  ELSE <<[key |-> t[1], color |-> t[2]]>> \o PreOrderEntries(t[3]) \o PreOrderEntries(t[4])

TreeInputs == {PreOrderEntries(t) : t \in ValidTrees}

(***************************************************************************)
(* class rw_monitor.  Every member function runs between                   *)
(* pthread_mutex_lock(&cond_lock) and pthread_mutex_unlock(&cond_lock) and *)
(* blocks only in pthread_cond_wait, which releases the mutex: each        *)
(* stretch of code that runs with the mutex held is one atomic step.       *)
(* A task blocked in pthread_cond_wait(&can_read) stands at "wait_read";   *)
(* once signalled it stands at "woken_read" until it gets the mutex back   *)
(* (other tasks may take the mutex first).  pthread_cond_signal wakes one  *)
(* of the tasks blocked on the condition variable, if any;                 *)
(* pthread_cond_broadcast wakes them all; no task wakes unsignalled.       *)
(***************************************************************************)
NoEv == [op |-> "none", task |-> 0, nr |-> 0, nw |-> 0, rw |-> 0, ww |-> 0,
         waited |-> FALSE, cv |-> "none", blocked |-> {}, woke |-> {}]

\* The monitor step of task t, with the counters it found.
Ev(op, t, waited, cv, blocked, woke) ==
  [op |-> op, task |-> t, nr |-> num_readers, nw |-> num_writers,
   rw |-> readers_wait, ww |-> writers_wait,
   waited |-> waited, cv |-> cv, blocked |-> blocked, woke |-> woke]

\* The tasks blocked in pthread_cond_wait on can_read / can_write.
BlockedOn(label) == {u \in DOMAIN pc : pc[u] = label}

\* rw_monitor::rw_monitor
MonitorInit ==
  /\ num_readers = 0
  /\ num_writers = 0
  /\ readers_wait = 0
  /\ writers_wait = 0
  /\ ev = NoEv
  /\ owed = {}

\* pc after the tasks in woke have been signalled and t has moved to next.
Woken(t, next, woke, wokenLabel) ==
  [u \in DOMAIN pc |-> IF u = t THEN next
                       ELSE IF u \in woke THEN wokenLabel ELSE pc[u]]

\* begin_read without num_readers++ for a task that has waited.
begin_read_NoCountAfterWait(t) ==
  /\ pc[t] \in {"begin_read", "woken_read"}
  /\ IF pc[t] = "begin_read" /\ (num_writers = 1 \/ writers_wait > 0)
       THEN /\ readers_wait' = readers_wait + 1
            /\ pc' = [pc EXCEPT ![t] = "wait_read"]
            /\ ev' = Ev("begin_read_wait", t, FALSE, "none", {}, {})
            /\ UNCHANGED num_readers
       ELSE /\ readers_wait' = IF pc[t] = "woken_read" THEN readers_wait - 1
                               ELSE readers_wait
            /\ num_readers' = IF pc[t] = "woken_read" THEN num_readers
                              ELSE num_readers + 1
            /\ pc' = [pc EXCEPT ![t] = "bcast"]
            /\ ev' = Ev("begin_read_admit", t, pc[t] = "woken_read", "none", {}, {})
  /\ UNCHANGED <<treeVars, runVars, num_writers, writers_wait, owed>>

\* rw_monitor::begin_read up to the unlock (111-121).  A task enters at
\* "begin_read" and tests the condition once; a task that pthread_cond_wait
\* has released continues at "woken_read" with readers_wait-- and does not
\* test the condition again (`if`, not `while`).
begin_read(t) ==
  /\ pc[t] \in {"begin_read", "woken_read"}
  /\ IF pc[t] = "begin_read" /\ (num_writers = 1 \/ writers_wait > 0)
       THEN /\ readers_wait' = readers_wait + 1
            /\ pc' = [pc EXCEPT ![t] = "wait_read"]
            /\ ev' = Ev("begin_read_wait", t, FALSE, "none", {}, {})
            /\ UNCHANGED num_readers
       ELSE /\ readers_wait' = IF pc[t] = "woken_read" THEN readers_wait - 1
                               ELSE readers_wait
            /\ num_readers' = num_readers + 1
            /\ pc' = [pc EXCEPT ![t] = "bcast"]
            /\ ev' = Ev("begin_read_admit", t, pc[t] = "woken_read", "none", {}, {})
  /\ UNCHANGED <<treeVars, runVars, num_writers, writers_wait, owed>>

\* rw_monitor::begin_read, pthread_cond_broadcast(&can_read) after the
\* unlock (122), and the return.
begin_read_broadcast(t) ==
  /\ pc[t] = "bcast"
  /\ LET woke == BlockedOn("wait_read")
     IN /\ pc' = Woken(t, "reading", woke, "woken_read")
        /\ ev' = Ev("broadcast", t, FALSE, "can_read", woke, woke)
        /\ owed' = owed \ woke
  /\ UNCHANGED <<treeVars, runVars, num_readers, num_writers, readers_wait, writers_wait>>

\* rw_monitor::end_read: `if (num_readers-- == 0)` compares the count before
\* the decrement with 0.
end_read(t) ==
  /\ pc[t] = "end_read"
  /\ num_readers' = num_readers - 1
  /\ LET blocked == BlockedOn("wait_write")
     IN \E woke \in SUBSET blocked :
          /\ Cardinality(woke) =
               (IF num_readers = 0 /\ blocked # {} THEN 1 ELSE 0)
          /\ pc' = Woken(t, "done", woke, "woken_write")
          /\ ev' = Ev("end_read", t, FALSE,
                      IF num_readers = 0 THEN "can_write" ELSE "none", blocked, woke)
  /\ UNCHANGED <<treeVars, runVars, num_writers, readers_wait, writers_wait, owed>>

\* rw_monitor::begin_write (148-156).  A task enters at "begin_write" and
\* tests the condition once; a task that pthread_cond_wait has released
\* continues at "woken_write" with writers_wait-- and does not test the
\* condition again.
begin_write(t) ==
  /\ pc[t] \in {"begin_write", "woken_write"}
  /\ IF pc[t] = "begin_write" /\ (num_writers = 1 \/ num_readers > 0)
       THEN /\ writers_wait' = writers_wait + 1
            /\ pc' = [pc EXCEPT ![t] = "wait_write"]
            /\ ev' = Ev("begin_write_wait", t, FALSE, "none", {}, {})
            /\ UNCHANGED num_writers
       ELSE /\ writers_wait' = IF pc[t] = "woken_write" THEN writers_wait - 1
                               ELSE writers_wait
            /\ num_writers' = 1
            /\ pc' = [pc EXCEPT ![t] = "writing"]
            /\ ev' = Ev("begin_write_admit", t, pc[t] = "woken_write", "none", {}, {})
  /\ UNCHANGED <<treeVars, runVars, num_readers, readers_wait, owed>>

\* end_write signalling can_read and can_write both.
end_write_SignalBoth(t) ==
  /\ pc[t] = "end_write"
  /\ num_writers' = 0
  /\ LET blockedR == BlockedOn("wait_read")
         blockedW == BlockedOn("wait_write")
     IN \E wr \in SUBSET blockedR, ww \in SUBSET blockedW :
          /\ Cardinality(wr) = (IF readers_wait > 0 /\ blockedR # {} THEN 1 ELSE 0)
          /\ Cardinality(ww) = (IF blockedW # {} THEN 1 ELSE 0)
          /\ pc' = [u \in DOMAIN pc |->
                      IF u = t THEN "done"
                      ELSE IF u \in wr THEN "woken_read"
                      ELSE IF u \in ww THEN "woken_write" ELSE pc[u]]
          /\ ev' = Ev("end_write", t, FALSE,
                      IF readers_wait > 0 THEN "can_read" ELSE "can_write",
                      blockedR \cup blockedW, wr \cup ww)
          /\ owed' = IF readers_wait > 0 THEN blockedR \ wr ELSE owed
  /\ UNCHANGED <<treeVars, runVars, num_readers, readers_wait, writers_wait>>

\* rw_monitor::end_write
end_write(t) ==
  /\ pc[t] = "end_write"
  /\ num_writers' = 0
  /\ LET cv      == IF readers_wait > 0 THEN "can_read" ELSE "can_write"
         blocked == IF readers_wait > 0 THEN BlockedOn("wait_read")
                    ELSE BlockedOn("wait_write")
     IN \E woke \in SUBSET blocked :
          /\ Cardinality(woke) = (IF blocked # {} THEN 1 ELSE 0)
          /\ pc' = Woken(t, "done", woke,
                         IF readers_wait > 0 THEN "woken_read" ELSE "woken_write")
          /\ ev' = Ev("end_write", t, FALSE, cv, blocked, woke)
          /\ owed' = IF readers_wait > 0 THEN blocked \ woke ELSE owed
  /\ UNCHANGED <<treeVars, runVars, num_readers, readers_wait, writers_wait>>

(***************************************************************************)
(* TreeSpec: one RBTree object, either empty (RBTree() sets root = NULL)   *)
(* or bulk-loaded from a valid input, driven by calls of its public        *)
(* operations.                                                             *)
(***************************************************************************)
\* lastOp: the call (op, key), whether search_tree found the key when the call
\* began (found), and instrumentation: the rotations the call made (rots), the
\* key set before it (before), whether it left root, heap and alloc as
\* they were (same), whether it dereferenced NULL (fault), the number of
\* delete_helper calls (dh) and the steps of fix_double_black (fdb).
NoOp == [op |-> "none", key |-> 0, found |-> FALSE, rots |-> 0, before |-> {},
         same |-> TRUE, fault |-> FALSE, dh |-> 0, fdb |-> <<>>]

CurT == MkT(root, heap, alloc, 0)

Loaded(B) ==
  /\ root = B.root
  /\ heap = B.h
  /\ alloc = B.alloc
  /\ last = B.last

\* The variables of main() before main has run.
NoInput == [tree |-> <<>>, searchers |-> <<>>, modifiers |-> <<>>, worker_threads |-> <<0, 0>>]

NoRef == [root |-> NULL, h |-> EmptyHeap, alloc |-> {}]

NoResults == [search_true |-> <<>>, search_thread_ids |-> <<>>, final_rbt |-> <<>>]

RunIdle ==
  /\ input = NoInput
  /\ main = [pc |-> "idle", s_thread_count |-> 0, m_thread_count |-> 0]
  /\ tdata = <<>>
  /\ results = NoResults
  /\ ub = FALSE
  /\ ref = NoRef

\* insert_node, delete_node and search_tree neither read nor write the
\* member last, so TreeSpec leaves it at its unassigned value.
TreeInit ==
  /\ \/ Loaded([root |-> NULL, h |-> EmptyHeap, alloc |-> {}, last |-> Uninit])
     \/ \E in \in TreeInputs : Loaded([build_tree(in) EXCEPT !.last = Uninit])
  /\ lastOp = NoOp
  /\ applied = 0
  /\ MonitorInit
  /\ pc = <<>>
  /\ RunIdle

\* The tree object after a call has left the tree state T.
Committed(T, op, k, f) ==
  /\ root' = T.root
  /\ heap' = T.h
  /\ alloc' = T.alloc
  /\ UNCHANGED <<last, monVars, runVars>>
  /\ lastOp' = [op |-> op, key |-> k, found |-> f, rots |-> T.rots,
                before |-> KeySet(heap, root),
                same |-> (T.root = root /\ T.h = heap /\ T.alloc = alloc),
                fault |-> T.fault, dh |-> T.dh, fdb |-> T.fdb]

\* A call made by TreeSpec.
Commit(T, op, k, f) == Committed(T, op, k, f) /\ UNCHANGED applied

\* A call rbt.insert_node(k)
Insert(k) ==
  Commit(insert_node(CurT, k), "insert", k, search_tree(CurT, k) # NULL)

\* A call rbt.delete_node(k)
Delete(k) ==
  Commit(delete_node(CurT, k), "delete", k, search_tree(CurT, k) # NULL)

\* A call rbt.search_tree(k); found records whether it returned a node.
Search(k) ==
  Commit(CurT, "search", k, search_tree(CurT, k) # NULL)

TreeNext ==
  \E k \in Keys : Insert(k) \/ Delete(k) \/ Search(k)

vars == <<treeVars, monVars, runVars>>

TreeSpec == TreeInit /\ [][TreeNext]_vars

TreeValid == RBValid(heap, root)

(***************************************************************************)
(* SeqSpec: one RBTree object, starting empty, and a caller that inserts   *)
(* the keys of a given sequence in its order.  The sequences are the       *)
(* orders of the keys 1 .. MaxSeqKey.                                      *)
(***************************************************************************)
\* The sequences that hold each key of S once.
Orders(S) == {s \in [1 .. Cardinality(S) -> S] : \A k \in S : \E i \in DOMAIN s : s[i] = k}

SeqInit ==
  /\ Loaded([root |-> NULL, h |-> EmptyHeap, alloc |-> {}, last |-> Uninit])
  /\ lastOp = NoOp
  /\ applied = 0
  /\ MonitorInit
  /\ pc = <<>>
  /\ \E s \in Orders(1 .. MaxSeqKey) :
       input = [NoInput EXCEPT
                  !.modifiers = [i \in DOMAIN s |-> [operation |-> "insert", key |-> s[i]]]]
  /\ main = [pc |-> "idle", s_thread_count |-> 0, m_thread_count |-> 0]
  /\ tdata = <<>>
  /\ results = NoResults
  /\ ub = FALSE
  /\ ref = NoRef

\* The call rbt.insert_node(k) for the next key of the sequence.
SeqInsert ==
  /\ applied < Len(input.modifiers)
  /\ Committed(insert_node(CurT, input.modifiers[applied + 1].key), "insert",
               input.modifiers[applied + 1].key,
               search_tree(CurT, input.modifiers[applied + 1].key) # NULL)
  /\ applied' = applied + 1

SeqSpec == SeqInit /\ [][SeqInsert]_vars

(***************************************************************************)
(* MonSpec: one rw_monitor used by NumReaders reader tasks and NumWriters  *)
(* writer tasks, each calling begin_read/end_read or begin_write/end_write *)
(* once, as reader() and writer() do, with no order imposed between the    *)
(* tasks.  The tree is left alone.                                         *)
(***************************************************************************)
NumReaders == 2

NumWriters == 2

Readers == 1 .. NumReaders

Writers == NumReaders + 1 .. NumReaders + NumWriters

MonInit ==
  /\ Loaded([root |-> NULL, h |-> EmptyHeap, alloc |-> {}, last |-> Uninit])
  /\ lastOp = NoOp
  /\ applied = 0
  /\ MonitorInit
  /\ pc = [t \in Readers \cup Writers |->
             IF t \in Readers THEN "begin_read" ELSE "begin_write"]
  /\ RunIdle

\* The reader between the return of begin_read and the call of end_read.
ReadSection(t) ==
  /\ pc[t] = "reading"
  /\ pc' = [pc EXCEPT ![t] = "end_read"]
  /\ UNCHANGED <<treeVars, runVars, num_readers, num_writers, readers_wait, writers_wait, ev, owed>>

\* The writer between the return of begin_write and the call of end_write.
WriteSection(t) ==
  /\ pc[t] = "writing"
  /\ pc' = [pc EXCEPT ![t] = "end_write"]
  /\ UNCHANGED <<treeVars, runVars, num_readers, num_writers, readers_wait, writers_wait, ev, owed>>

ReaderStep(t) ==
  \/ begin_read(t)
  \/ begin_read_broadcast(t)
  \/ ReadSection(t)
  \/ end_read(t)

WriterStep(t) ==
  \/ begin_write(t)
  \/ WriteSection(t)
  \/ end_write(t)

MonNext ==
  \/ \E t \in Readers : ReaderStep(t)
  \/ \E t \in Writers : WriterStep(t)

MonSpec == MonInit /\ [][MonNext]_vars

\* The scheduler lets every task that can run take its next step.
MonFairSpec ==
  /\ MonSpec
  /\ \A t \in Readers : WF_vars(ReaderStep(t))
  /\ \A t \in Writers : WF_vars(WriterStep(t))

(***************************************************************************)
(* RBTree::prefix_order: the string as a sequence of tokens, <<key, "b">>  *)
(* or <<key, "r">> for a node and FTok for an `f`.                         *)
(***************************************************************************)
FTok == <<FKey, "f">>

\* RBTree::prefix_order_helper; lastKey is last->key.
RECURSIVE prefix_order_helper(_, _, _, _)
prefix_order_helper(h, node, lastKey, fuel) ==
  IF node = NULL \/ fuel = 0 THEN <<>>
  ELSE
    LET c == IF h[node].color = black THEN "b" ELSE "r"
    IN <<<<h[node].key, c>>>>
       \o (IF h[node].left = NULL THEN <<FTok>> ELSE <<>>)
       \o (IF h[node].right = NULL /\ lastKey # h[node].key THEN <<FTok>> ELSE <<>>)
       \o prefix_order_helper(h, h[node].left, lastKey, fuel - 1)
       \o prefix_order_helper(h, h[node].right, lastKey, fuel - 1)

\* RBTree::prefix_order followed by get_prefix_tree
prefix_order(h, r, lastKey) == prefix_order_helper(h, r, lastKey, MaxNodes + 1)

(***************************************************************************)
(* RunSpec: main().  The parser's output is the input: a valid tree, the   *)
(* search keys, the insert/delete operations and the two thread counts.    *)
(* Reading a deleted node or an uninitialised pointer is undefined: the    *)
(* model sets ub and lets the run either stop ("crashed") or go on with    *)
(* what a read of stale memory can give.                                   *)
(***************************************************************************)
MaxRunKey == 3

MaxTreeKey == 2

MaxSearches == 2

MaxMods == 2

RunKeys == 1 .. MaxRunKey

SeqsUpTo(S, n) == UNION {[1 .. m -> S] : m \in 0 .. n}

\* The input tree holds keys up to MaxTreeKey, the operations use keys up to
\* MaxRunKey: an insert of a key above every key of a two-node tree rotates
\* at the root.
RunTrees ==
  {PreOrderEntries(t) : t \in UNION {RBTrees(1, MaxTreeKey, bh, FALSE) : bh \in 1 .. MaxTreeKey}}

\* pthread_t threads[NUM_THREADS], NUM_THREADS = io.worker_threads[0] +
\* io.worker_threads[1]: the thread ids a run can use.
Tids == 0 .. MaxSearches + MaxMods - 1

ModOps == [operation : {"insert", "delete"}, key : RunKeys]

RunInputs ==
  [tree : RunTrees,
   searchers : SeqsUpTo(RunKeys, MaxSearches),
   modifiers : SeqsUpTo(ModOps, MaxMods),
   worker_threads : (1 .. MaxSearches) \X (1 .. MaxMods)]

RunInit ==
  /\ input \in RunInputs
  /\ main = [pc |-> "build", s_thread_count |-> 0, m_thread_count |-> 0]
  /\ Loaded([root |-> NULL, h |-> EmptyHeap, alloc |-> {}, last |-> Uninit])
  /\ lastOp = NoOp
  /\ applied = 0
  /\ MonitorInit
  /\ pc = [t \in Tids |-> "unborn"]
  /\ tdata = <<>>
  /\ results = NoResults
  /\ ub = FALSE
  /\ ref = NoRef

\* RBTree rbt(io.tree); rbt.build_tree();  (1138-1139)
main_build ==
  /\ main.pc = "build"
  /\ LET B == build_tree(input.tree)
     IN /\ root' = B.root
        /\ heap' = B.h
        /\ alloc' = B.alloc
        /\ last' = B.last
        /\ ref' = [root |-> B.root, h |-> B.h, alloc |-> B.alloc]
  /\ main' = [main EXCEPT !.pc = "spawn_readers"]
  /\ UNCHANGED <<lastOp, applied, monVars, input, tdata, results, ub>>

\* thread_data as main fills it: data->rbt = rbt copies the members of rbt.
NewData(op) == [op |-> op, root |-> root, last |-> last, n |-> 0]

\* while(!search.empty() && s_thread_count < io.worker_threads[0])
MoreReaders ==
  /\ main.s_thread_count < Len(input.searchers)
  /\ main.s_thread_count < input.worker_threads[1]

\* One turn of the loop that creates the reader threads (1156-1170).
main_create_reader ==
  /\ main.pc = "spawn_readers"
  /\ MoreReaders
  /\ LET tid == main.s_thread_count
         op  == [operation |-> "search", key |-> input.searchers[tid + 1]]
     IN /\ tdata' = (tid :> NewData(op)) @@ tdata
        /\ pc' = [pc EXCEPT ![tid] = "begin_read"]
  /\ main' = [main EXCEPT !.s_thread_count = @ + 1]
  /\ UNCHANGED <<treeVars, num_readers, num_writers, readers_wait, writers_wait,
                 ev, owed, input, results, ub, ref>>

\* The reader loop ends; main goes on to the joins.
main_readers_created ==
  /\ main.pc = "spawn_readers"
  /\ ~MoreReaders
  /\ main' = [main EXCEPT !.pc = "join_readers"]
  /\ UNCHANGED <<treeVars, monVars, input, tdata, results, ub, ref>>

\* for (i < s_thread_count) pthread_join(threads[i]); m_thread_count =
\* s_thread_count  (1172-1176)
main_join_readers ==
  /\ main.pc = "join_readers"
  /\ \A i \in 0 .. main.s_thread_count - 1 : pc[i] = "done"
  /\ main' = [main EXCEPT !.pc = "spawn_writer", !.m_thread_count = main.s_thread_count]
  /\ UNCHANGED <<treeVars, monVars, input, tdata, results, ub, ref>>

\* while(!modify.empty() && (m_thread_count - s_thread_count) < io.worker_threads[1])
MoreWriters ==
  /\ main.m_thread_count - main.s_thread_count < Len(input.modifiers)
  /\ main.m_thread_count - main.s_thread_count < input.worker_threads[2]

\* One turn of the writer loop up to pthread_create (1177-1194).
main_create_writer ==
  /\ main.pc = "spawn_writer"
  /\ MoreWriters
  /\ LET tid == main.m_thread_count
         op  == input.modifiers[main.m_thread_count - main.s_thread_count + 1]
     IN /\ tdata' = (tid :> NewData(op)) @@ tdata
        /\ pc' = [pc EXCEPT ![tid] = "begin_write"]
  /\ main' = [main EXCEPT !.pc = "join_writer"]
  /\ UNCHANGED <<treeVars, num_readers, num_writers, readers_wait, writers_wait,
                 ev, owed, input, results, ub, ref>>

\* The writer loop going on without pthread_join.
main_join_writer_NoWait ==
  /\ main.pc = "join_writer"
  /\ main' = [main EXCEPT !.pc = "spawn_writer", !.m_thread_count = @ + 1]
  /\ UNCHANGED <<treeVars, monVars, input, tdata, results, ub, ref>>

\* pthread_join(threads[m_thread_count]); m_thread_count++; modify.pop()
\* (1196-1198)
main_join_writer ==
  /\ main.pc = "join_writer"
  /\ pc[main.m_thread_count] = "done"
  /\ main' = [main EXCEPT !.pc = "spawn_writer", !.m_thread_count = @ + 1]
  /\ UNCHANGED <<treeVars, monVars, input, tdata, results, ub, ref>>

\* The writer loop ends.
main_writers_done ==
  /\ main.pc = "spawn_writer"
  /\ ~MoreWriters
  /\ main' = [main EXCEPT !.pc = "serialize"]
  /\ UNCHANGED <<treeVars, monVars, input, tdata, results, ub, ref>>

\* A pointer to a node that has been deleted.
Dangling(n) == n # NULL /\ n \notin alloc

\* The threads and main after the process has died.
Crashed ==
  /\ main' = [main EXCEPT !.pc = "crashed"]
  /\ pc' = [t \in DOMAIN pc |-> "crashed"]

\* rbt.prefix_order(); r->final_rbt = rbt.get_prefix_tree();  (1201-1202)
\* prefix_order_helper reads root->color and last->key: undefined when root
\* points to a deleted node or last was never assigned.
main_serialize ==
  /\ main.pc = "serialize"
  /\ IF Dangling(root) \/ (root # NULL /\ last = Uninit)
       THEN /\ ub' = TRUE
            /\ \E out \in {"crash", "stale"} :
                 IF out = "crash"
                   THEN Crashed /\ UNCHANGED results
                   ELSE /\ \E lk \in RunKeys \cup {Uninit}, r \in {NULL} \cup alloc :
                             /\ Dangling(root) \/ r = root
                             /\ last # Uninit => lk = last
                             /\ results' = [results EXCEPT
                                  !.final_rbt = prefix_order(heap, r, lk)]
                        /\ main' = [main EXCEPT !.pc = "done"]
                        /\ UNCHANGED pc
       ELSE /\ results' = [results EXCEPT !.final_rbt = prefix_order(heap, root, last)]
            /\ main' = [main EXCEPT !.pc = "done"]
            /\ UNCHANGED <<pc, ub>>
  /\ UNCHANGED <<treeVars, num_readers, num_writers, readers_wait, writers_wait,
                 ev, owed, input, tdata, ref>>

\* search_thread (1040-1049), the search: the thread's copy of rbt holds the
\* root pointer main had when it created the thread.
search_thread(t) ==
  /\ pc[t] = "reading"
  /\ tdata[t].op.operation = "search"
  /\ LET found == search_tree(MkT(tdata[t].root, heap, alloc, 0), tdata[t].op.key) # NULL
     IN pc' = [pc EXCEPT ![t] = IF found THEN "push_true" ELSE "push_id"]
  /\ UNCHANGED <<treeVars, num_readers, num_writers, readers_wait, writers_wait,
                 ev, owed, runVars>>

\* vector::push_back without a lock, first half: the thread reads the size.
PushRead(t, at, vec, next) ==
  /\ pc[t] = at
  /\ tdata' = [tdata EXCEPT ![t].n = Len(vec)]
  /\ pc' = [pc EXCEPT ![t] = next]
  /\ UNCHANGED <<treeVars, num_readers, num_writers, readers_wait, writers_wait,
                 ev, owed, input, main, results, ub, ref>>

\* vector::push_back, second half: the element goes to the slot after the
\* size the thread has read, and the size becomes that size plus one.
Pushed(vec, n, x) ==
  [i \in 1 .. n + 1 |-> IF i = n + 1 THEN x ELSE IF i <= Len(vec) THEN vec[i] ELSE 0]

\* data->results->search_true.push_back(data->op->key)  (1045)
push_true_read(t) == PushRead(t, "push_true", results.search_true, "push_true_write")

push_true_write(t) ==
  /\ pc[t] = "push_true_write"
  /\ results' = [results EXCEPT
       !.search_true = Pushed(results.search_true, tdata[t].n, tdata[t].op.key)]
  /\ pc' = [pc EXCEPT ![t] = "push_id"]
  /\ UNCHANGED <<treeVars, num_readers, num_writers, readers_wait, writers_wait,
                 ev, owed, input, main, tdata, ub, ref>>

\* data->results->search_thread_ids.push_back((long) pthread_self())  (1047)
push_id_read(t) == PushRead(t, "push_id", results.search_thread_ids, "push_id_write")

push_id_write(t) ==
  /\ pc[t] = "push_id_write"
  /\ results' = [results EXCEPT
       !.search_thread_ids = Pushed(results.search_thread_ids, tdata[t].n, t)]
  /\ pc' = [pc EXCEPT ![t] = "end_read"]
  /\ UNCHANGED <<treeVars, num_readers, num_writers, readers_wait, writers_wait,
                 ev, owed, input, main, tdata, ub, ref>>

\* The call of insert_node / delete_node on a tree object.
Apply(T, op) ==
  IF op.operation = "insert" THEN insert_node(T, op.key) ELSE delete_node(T, op.key)

\* The thread's copy of rbt (data->rbt): its own root member, the shared
\* nodes.
OwnTree(t) == MkT(tdata[t].root, heap, alloc, 0)

RefTree == MkT(ref.root, ref.h, ref.alloc, 0)

RefAfter(R) == [root |-> R.root, h |-> R.h, alloc |-> R.alloc]

\* The thread after data->rbt.insert_node / delete_node has left the tree
\* state T: a NULL dereference ends the process.
Modified(t, T) ==
  IF T.fault
    THEN /\ ub' = TRUE
         /\ Crashed
         /\ UNCHANGED <<heap, alloc, tdata>>
    ELSE /\ heap' = T.h
         /\ alloc' = T.alloc
         /\ tdata' = [tdata EXCEPT ![t].root = T.root]
         /\ pc' = [pc EXCEPT ![t] = "end_write"]
         /\ UNCHANGED <<main, ub>>

\* insert_thread / delete_thread (1055-1073) as writer() calls them
\* (1105-1108): the operation runs on the thread's copy of rbt, whose root
\* member is the thread's own; the nodes are shared.  Both operations read
\* root->key first: undefined when the copied root points to a deleted node.
modify_thread(t) ==
  /\ pc[t] = "writing"
  /\ ref' = RefAfter(Apply(RefTree, tdata[t].op))
  /\ IF Dangling(tdata[t].root)
       THEN /\ ub' = TRUE
            /\ \E out \in {"crash", "stale"} :
                 IF out = "crash" THEN Crashed
                 ELSE /\ pc' = [pc EXCEPT ![t] = "end_write"]
                      /\ UNCHANGED main
            /\ UNCHANGED <<heap, alloc, tdata>>
       ELSE Modified(t, Apply(OwnTree(t), tdata[t].op))
  /\ UNCHANGED <<root, last, lastOp, applied, num_readers, num_writers, readers_wait,
                 writers_wait, ev, owed, input, results>>

\* reader() (1084-1092)
reader(t) ==
  \/ begin_read(t)
  \/ begin_read_broadcast(t)
  \/ search_thread(t)
  \/ push_true_read(t)
  \/ push_true_write(t)
  \/ push_id_read(t)
  \/ push_id_write(t)
  \/ end_read(t)

\* writer() (1100-1111)
writer(t) ==
  \/ begin_write(t)
  \/ modify_thread(t)
  \/ end_write(t)

RunNext ==
  \/ main_build
  \/ main_create_reader
  \/ main_readers_created
  \/ main_join_readers
  \/ main_create_writer
  \/ main_join_writer
  \/ main_writers_done
  \/ main_serialize
  \/ \E t \in Tids : reader(t)
  \/ \E t \in Tids : writer(t)

RunSpec == RunInit /\ [][RunNext]_vars

(***************************************************************************)
(* LoadSpec: the bulk load of main() alone, for every valid red-black tree *)
(* with keys in -1 .. MaxLoadKey as input.                                 *)
(***************************************************************************)
MaxLoadKey == 3

\* The non-empty valid trees with keys in -1 .. MaxLoadKey.
LoadTrees == UNION {RBTrees(FKey, MaxLoadKey, bh, FALSE) : bh \in 1 .. MaxLoadKey}

LoadInit ==
  /\ input \in [tree : {PreOrderEntries(t) : t \in LoadTrees}, searchers : {<<>>}, modifiers : {<<>>},
                worker_threads : {<<1, 1>>}]
  /\ main = [pc |-> "build", s_thread_count |-> 0, m_thread_count |-> 0]
  /\ Loaded([root |-> NULL, h |-> EmptyHeap, alloc |-> {}, last |-> Uninit])
  /\ lastOp = NoOp
  /\ applied = 0
  /\ MonitorInit
  /\ pc = [t \in Tids |-> "unborn"]
  /\ tdata = <<>>
  /\ results = NoResults
  /\ ub = FALSE
  /\ ref = NoRef

LoadSpec == LoadInit /\ [][main_build]_vars

(***************************************************************************)
(* DelSpec: one RBTree object holding any valid red-black tree with keys   *)
(* in 1 .. MaxDelKey, and a caller that deletes keys from it.              *)
(***************************************************************************)
DelInit ==
  /\ \E t \in UNION {RBTrees(1, MaxDelKey, bh, FALSE) : bh \in 1 .. MaxDelKey} :
       Loaded([build_tree(PreOrderEntries(t)) EXCEPT !.last = Uninit])
  /\ lastOp = NoOp
  /\ applied = 0
  /\ MonitorInit
  /\ pc = <<>>
  /\ RunIdle

DelSpec == DelInit /\ [][\E k \in 1 .. MaxDelKey : Delete(k)]_vars

(***************************************************************************)
(* RotSpec: one RBTree object holding any valid red-black tree with keys   *)
(* in 1 .. MaxKey (or none), on which rotate_left and rotate_right are     *)
(* called, as fix_insert and fix_double_black call them, on any node that  *)
(* has the child the rotation promotes.                                    *)
(***************************************************************************)
Rotate(n) ==
  /\ n \in Reach(heap, root)
  /\ \/ /\ heap[n].right # NULL
        /\ Commit(rotate_left(CurT, n), "rotate_left", heap[n].key, TRUE)
     \/ /\ heap[n].left # NULL
        /\ Commit(rotate_right(CurT, n), "rotate_right", heap[n].key, TRUE)

RotSpec == TreeInit /\ [][\E n \in Node : Rotate(n)]_vars

(***************************************************************************)
(* Claims about the tree engine, checked under TreeSpec.                   *)
(***************************************************************************)
KeysNow == KeySet(heap, root)

\* C7: after each completed insert_node(k) the tree satisfies the five
\* red-black invariants and its key set is the previous key set plus k.
C7_InsertKeepsInvariants ==
  lastOp.op = "insert" =>
    /\ RBValid(heap, root)
    /\ KeysNow = lastOp.before \cup {lastOp.key}
    /\ Len(in_order(heap, root)) = Cardinality(lastOp.before \cup {lastOp.key})

\* An insert of a new key that rotated twice and filled the tree.
C7_Witness ==
  /\ lastOp.op = "insert" /\ ~lastOp.found /\ lastOp.rots = 2
  /\ Cardinality(KeysNow) = MaxKey

\* C8: after delete_node(k) of a present key the tree satisfies the five
\* invariants and its in-order traversal is sorted and holds exactly the
\* previous keys without k.
C8_DeleteKeepsInvariants ==
  (lastOp.op = "delete" /\ lastOp.key \in lastOp.before) =>
    /\ RBValid(heap, root)
    /\ IsSorted(in_order(heap, root))
    /\ SeqSet(in_order(heap, root)) = lastOp.before \ {lastOp.key}
    /\ Len(in_order(heap, root)) = Cardinality(lastOp.before) - 1

\* A delete of a present key that needed the double-black repair with two
\* rotations.
C8_Witness ==
  /\ lastOp.op = "delete" /\ lastOp.found /\ lastOp.rots >= 2
  /\ Cardinality(KeysNow) = MaxKey - 1

\* C9: search_tree(k) returns a node iff k is in the key set, and changes
\* nothing of the tree.
C9_SearchCorrect ==
  lastOp.op = "search" =>
    /\ lastOp.found <=> (lastOp.key \in KeysNow)
    /\ lastOp.same

\* A search that found its key below the root of a tree changed by deletes.
C9_Witness ==
  /\ lastOp.op = "search" /\ lastOp.found
  /\ root # NULL /\ heap[root].key # lastOp.key
  /\ Cardinality(KeysNow) >= 3
  /\ \E n \in alloc : heap[n].key # n

\* C10: insert_node(k) on a tree that holds k changes nothing (keys, shape,
\* colours, root, allocated nodes) and rotates nothing.
C10_InsertIdempotent ==
  (lastOp.op = "insert" /\ lastOp.key \in lastOp.before) =>
    /\ lastOp.same
    /\ lastOp.rots = 0
    /\ KeysNow = lastOp.before

\* A second insert of a key the tree already holds.
C10_Witness ==
  /\ lastOp.op = "insert" /\ lastOp.found
  /\ lastOp.key \in lastOp.before
  /\ Cardinality(KeysNow) >= 3

(***************************************************************************)
(* Claims about the monitor, checked under MonSpec / MonFairSpec.          *)
(***************************************************************************)
\* Between the return of begin_write and the end of end_write.
InWrite(t) == pc[t] \in {"writing", "end_write"}

\* Between the return of begin_read and the end of end_read.
InRead(t) == pc[t] \in {"reading", "end_read"}

IsBlocked(t) == pc[t] \in {"wait_read", "wait_write"}

\* C1: in every reachable state at most one task is between the return of
\* begin_write and its end_write, and no task is between the return of
\* begin_read and its end_read while a writer is in that window.
C1_MutualExclusion ==
  /\ Cardinality({t \in DOMAIN pc : InWrite(t)}) <= 1
  /\ (\E t \in DOMAIN pc : InWrite(t)) => ~(\E u \in DOMAIN pc : InRead(u))

\* begin_read / begin_write has admitted t (the counter is set), or t has
\* been through its end operation.
Admitted(t) == pc[t] \in {"bcast", "reading", "end_read", "writing", "end_write", "done"}

\* C2: under fair scheduling, with every admitted task calling its end
\* operation, every task that calls begin_read or begin_write is eventually
\* admitted: no task stays blocked on can_read or can_write forever.
C2_NoTaskBlockedForever ==
  \A t \in Readers \cup Writers :
    (pc[t] \in {"begin_read", "begin_write"}) ~> Admitted(t)

\* C3: begin_read increments num_readers only in a state with
\* num_writers = 0 and writers_wait = 0, for a reader admitted at once and
\* for a reader admitted after it waited on can_read.
C3_ReadAdmission ==
  ev.op = "begin_read_admit" => (ev.nw = 0 /\ ev.ww = 0)

\* C4: end_read signals can_write exactly when its decrement takes
\* num_readers from 1 to 0, and then wakes one waiting writer, if any.
C4_EndReadWake ==
  ev.op = "end_read" =>
    /\ (ev.cv = "can_write") <=> (ev.nr = 1)
    /\ Cardinality(ev.woke) = (IF ev.nr = 1 /\ ev.blocked # {} THEN 1 ELSE 0)

\* What end_write has just signalled.
C5_EndWriteSignal ==
  ev.op = "end_write" =>
    /\ ev.rw > 0 => /\ ev.cv = "can_read"
                    /\ ev.woke \cap Writers = {}
                    /\ ev.blocked # {} => ev.woke # {}
    /\ ev.rw = 0 => /\ ev.cv = "can_write"
                    /\ ev.woke \subseteq Writers
                    /\ Cardinality(ev.woke) = (IF ev.blocked = {} THEN 0 ELSE 1)

\* C5: end_write sets num_writers to 0; if readers_wait > 0 then, it signals
\* no writer and every reader blocked on can_read at that moment is woken,
\* by the signal or by the broadcast of an admitted reader; if
\* readers_wait = 0 it signals exactly one waiting writer, if any.
C5_EndWriteWake ==
  /\ []C5_EndWriteSignal
  /\ [][\A t \in Writers : end_write(t) => num_writers' = 0]_vars
  /\ \A r \in Readers : (r \in owed) ~> (r \notin owed)

\* end_write has found two readers blocked, woken one and left the other to
\* the broadcast.
C5_Witness ==
  /\ ev.op = "end_write" /\ ev.rw = 2
  /\ Cardinality(ev.blocked) = 2 /\ Cardinality(ev.woke) = 1
  /\ owed # {}

(***************************************************************************)
(* Claims about the orchestrated run, checked under RunSpec.               *)
(***************************************************************************)
\* C6: the string serialized after the last writer has finished is the
\* serialization of the tree obtained by applying every executed insert and
\* delete, in input order, to the bulk-loaded tree: each writer works on the
\* tree and the root reference the writer before it left, and the
\* serialization starts from the current root.  Stated for the runs in which
\* nothing undefined has been read.
C6_FinalSnapshot ==
  (main.pc = "done" /\ ~ub) =>
    results.final_rbt = prefix_order(ref.h, ref.root, last)

(***************************************************************************)
(* Further claims about the tree engine, checked under TreeSpec.           *)
(***************************************************************************)
\* C11: delete_node(k) on an empty tree, or on a tree that does not hold k,
\* changes no key, colour or link and not the root reference, and deletes
\* no node.
C11_DeleteMissingNoEffect ==
  (lastOp.op = "delete" /\ lastOp.key \notin lastOp.before) =>
    /\ lastOp.same
    /\ lastOp.rots = 0
    /\ ~lastOp.fault
    /\ KeysNow = lastOp.before

\* A delete of a key that a tree of three or more keys does not hold.
C11_Witness ==
  /\ lastOp.op = "delete" /\ ~lastOp.found
  /\ lastOp.key \notin lastOp.before
  /\ Cardinality(lastOp.before) >= 3

(***************************************************************************)
(* Further claims about the orchestrated run, checked under RunSpec.       *)
(***************************************************************************)
\* The search keys main has handed to reader threads, in thread order.
ReaderOps == [i \in 1 .. main.s_thread_count |-> tdata[i - 1].op.key]

\* The operations main has handed to writer threads, in thread order.
WriterOps ==
  [i \in 1 .. main.m_thread_count - main.s_thread_count |->
     tdata[main.s_thread_count + i - 1].op]

\* C12: when the run is over, each search operation of the input has been
\* executed by exactly one reader task and each insert/delete operation by
\* exactly one writer task: the operations handed to the tasks, one per
\* task, are the operations of the input, and every task has finished.
C12_EveryOperationOnce ==
  (main.pc = "done" /\ ~ub) =>
    /\ ReaderOps = input.searchers
    /\ WriterOps = input.modifiers
    /\ \A t \in DOMAIN tdata : pc[t] = "done"

\* The thread is inside a push_back on one of the shared result vectors: it
\* has read the vector's size and not yet stored its element.
InAppend(t) == pc[t] \in {"push_true_write", "push_id_write"}

\* The number of entries of the sequence s that equal x.
Count(s, x) == Cardinality({i \in 1 .. Len(s) : s[i] = x})

\* C13: no two reader tasks are inside an append to the shared result lists
\* at the same time, and once all N reader tasks have finished (and no
\* writer has run yet) search_thread_ids holds exactly N entries and
\* search_true holds exactly one entry for each search that found its key.
C13_AppendSafe ==
  /\ Cardinality({t \in Tids : InAppend(t)}) <= 1
  /\ (main.pc = "spawn_writer" /\ main.m_thread_count = main.s_thread_count) =>
       /\ Len(results.search_thread_ids) = main.s_thread_count
       /\ \A k \in RunKeys :
            Count(results.search_true, k) =
              (IF k \in KeySet(heap, root) THEN Count(ReaderOps, k) ELSE 0)

\* The thread has been created and has not returned (nor died with the
\* process).
Alive(t) == pc[t] \notin {"unborn", "done", "crashed"}

\* The thread runs writer().
IsWriter(t) == t \in DOMAIN tdata /\ tdata[t].op.operation # "search"

\* Writer tasks are given the operations of the input list in its order, and
\* at most one writer task exists at a time.
C14_WritersInOrder ==
  /\ \A t \in Tids :
       IsWriter(t) =>
         /\ t - main.s_thread_count + 1 \in 1 .. Len(input.modifiers)
         /\ tdata[t].op = input.modifiers[t - main.s_thread_count + 1]
  /\ Cardinality({t \in Tids : IsWriter(t) /\ Alive(t)}) <= 1

\* C14: every reader task is started before main waits on any of them (no
\* reader is started once main has left its creation loop), a writer task
\* is started only when every task started before it, reader or writer,
\* has finished, and the writer tasks take the operations in input order.
C14_OrchestratorOrdering ==
  /\ []C14_WritersInOrder
  /\ [][(\E t \in Tids : pc[t] = "unborn" /\ pc'[t] = "begin_read") =>
         (main.pc = "spawn_readers" /\ main'.pc = "spawn_readers")]_vars
  /\ [][(\E t \in Tids : pc[t] = "unborn" /\ pc'[t] = "begin_write") =>
         \A u \in Tids : ~Alive(u)]_vars

\* Two readers have finished, the first writer has finished, and the second
\* writer is at work.
C14_Witness ==
  /\ main.s_thread_count = 2 /\ main.m_thread_count = 3
  /\ pc[0] = "done" /\ pc[1] = "done" /\ pc[2] = "done"
  /\ pc[3] = "writing"

(***************************************************************************)
(* Claims about a sequence of inserts, checked under SeqSpec.              *)
(***************************************************************************)
\* C15: inserting the keys 1,2,3,4,5,6,7 in this order into an empty tree
\* yields a tree with root key 4 and a black root, in-order traversal
\* 1 2 3 4 5 6 7 and equal black-height on every path.
C15_InsertOneToSeven ==
  (applied = 7 /\ \A i \in 1 .. 7 : input.modifiers[i].key = i) =>
    /\ root # NULL
    /\ heap[root].key = 4
    /\ heap[root].color = black
    /\ in_order(heap, root) = <<1, 2, 3, 4, 5, 6, 7>>
    /\ Inv4BlackHeight(heap, root)
    /\ ~lastOp.fault

\* C15, as the code has it: inserting the keys 1,2,3,4,5,6,7 in this order
\* into an empty tree yields the tree 2b(1b, 4r(3b, 6b(5r, 7r))): root key 2
\* and a black root, in-order traversal 1 2 3 4 5 6 7 and equal
\* black-height on every path.
C15_InsertOneToSevenRootTwo ==
  (applied = 7 /\ \A i \in 1 .. 7 : input.modifiers[i].key = i) =>
    /\ root # NULL
    /\ heap[root].key = 2
    /\ heap[root].color = black
    /\ ShapeOf(heap, root) =
         <<2, black, <<1, black, <<>>, <<>>>>,
                     <<4, red, <<3, black, <<>>, <<>>>>,
                               <<6, black, <<5, red, <<>>, <<>>>>,
                                           <<7, red, <<>>, <<>>>>>>>>>>
    /\ in_order(heap, root) = <<1, 2, 3, 4, 5, 6, 7>>
    /\ Inv4BlackHeight(heap, root)
    /\ ~lastOp.fault

\* The seventh insert of the sequence 1 .. 7 has been made.
C15_Witness ==
  /\ applied = 7 /\ \A i \in 1 .. 7 : input.modifiers[i].key = i
  /\ lastOp.op = "insert" /\ lastOp.key = 7 /\ ~lastOp.found

(***************************************************************************)
(* Claims about the bulk load, checked under LoadSpec.                     *)
(***************************************************************************)
\* C16: build_tree applied to the pre-order entry sequence of a valid
\* red-black tree with unique keys produces a tree with exactly that tree's
\* shape, keys and colours (its pre-order entry sequence is the input),
\* with consistent parent links, holding the created nodes and no other.
C16_BulkLoadReproduces ==
  main.pc = "spawn_readers" =>
    /\ PreOrderEntries(ShapeOf(heap, root)) = input.tree
    /\ ShapeOf(heap, root) \in LoadTrees
    /\ root # NULL /\ heap[root].parent = NULL
    /\ \A n \in Reach(heap, root) :
         /\ heap[n].left # NULL => heap[heap[n].left].parent = n
         /\ heap[n].right # NULL => heap[heap[n].right].parent = n
    /\ alloc = Reach(heap, root)

(***************************************************************************)
(* Further claims about the monitor, checked under MonFairSpec.            *)
(***************************************************************************)
\* C17, as the claim has it: with matched begin/end pairs there is an
\* interleaving in which num_readers becomes negative.
C17_ReaderCountNegative == <>(num_readers < 0)

\* C17, as the code has it: with matched begin/end pairs num_readers is
\* never negative: it is the number of tasks between the num_readers++ of
\* begin_read and the num_readers-- of end_read, so end_read finds it at 1
\* or more and its test num_readers-- == 0 never holds.
C17_ReaderCountNotNegative ==
  /\ num_readers >= 0
  /\ num_readers = Cardinality({t \in Readers : pc[t] \in {"bcast", "reading", "end_read"}})
  /\ ev.op = "end_read" => (ev.nr >= 1 /\ ev.cv = "none" /\ ev.woke = {})

\* The last reader has left (the count went from 1 to 0) with a writer
\* blocked on can_write.
C17_Witness ==
  /\ ev.op = "end_read" /\ ev.nr = 1 /\ num_readers = 0
  /\ ev.blocked # {}

(***************************************************************************)
(* Claims about the steps of a delete, checked under DelSpec.              *)
(***************************************************************************)
\* C18: delete_node of a present key finishes: delete_helper runs once, or
\* twice when the node has two children (it calls itself at most once);
\* in fix_double_black a red-sibling step is followed by a step on the same
\* node that is not a red-sibling step, a black-sibling-with-red-child step
\* is the last step, and after every other step the repair goes on, if it
\* goes on, one level closer to the root.
C18_DeleteTerminates ==
  (lastOp.op = "delete" /\ lastOp.key \in lastOp.before) =>
    /\ ~lastOp.fault
    /\ lastOp.dh \in {1, 2}
    /\ Len(lastOp.fdb) <= 2 * MaxNodes
    /\ \A i \in 1 .. Len(lastOp.fdb) :
         /\ lastOp.fdb[i].kind = "red_child" => i = Len(lastOp.fdb)
         /\ lastOp.fdb[i].kind = "red_sibling" =>
              /\ i < Len(lastOp.fdb)
              /\ lastOp.fdb[i + 1].node = lastOp.fdb[i].node
              /\ lastOp.fdb[i + 1].kind \in {"red_child", "black_sibling"}
         /\ (lastOp.fdb[i].kind \in {"no_sibling", "black_sibling"} /\ i < Len(lastOp.fdb)) =>
              /\ lastOp.fdb[i + 1].depth = lastOp.fdb[i].depth - 1
              /\ lastOp.fdb[i + 1].node # lastOp.fdb[i].node

\* A delete of a node with two children whose repair took a
\* black-sibling step and went on at the parent, one level up.
C18_Witness ==
  /\ lastOp.op = "delete" /\ lastOp.found
  /\ lastOp.dh = 2
  /\ Len(lastOp.fdb) = 2
  /\ lastOp.fdb[1].kind = "black_sibling"
  /\ lastOp.fdb[2].depth = lastOp.fdb[1].depth - 1

(***************************************************************************)
(* Claims about single rotations, checked under RotSpec.                   *)
(***************************************************************************)
\* What a rotation leaves alone: the allocated cells, the node set of the
\* tree, every key, every colour and the in-order key sequence.
C19_Kept ==
  /\ alloc' = alloc
  /\ Reach(heap', root') = Reach(heap, root)
  /\ \A n \in Node : heap'[n].key = heap[n].key /\ heap'[n].color = heap[n].color
  /\ in_order(heap', root') = in_order(heap, root)
  /\ ~lastOp'.fault

\* The links after a rotation at p that promotes p's child c, whose inner
\* subtree starts at in, below p's former parent g.
C19_Links(p, c, in, g) ==
  /\ \A n \in Node \ {p, c, in, g} : heap'[n] = heap[n]
  /\ heap'[c].parent = g
  /\ heap'[p].parent = c
  /\ in # NULL => heap'[in] = [heap[in] EXCEPT !.parent = p]
  /\ g # NULL => heap'[g] = [heap[g] EXCEPT !.left = IF @ = p THEN c ELSE @,
                                            !.right = IF @ = p THEN c ELSE @]
  /\ (root' = c) <=> (p = root)
  /\ p # root => root' = root

\* C19: rotate_left(p) on a node with a right child, and rotate_right(p) on
\* a node with a left child, keep the node set, the keys, the colours and
\* the in-order key sequence, change only the links of p, of the promoted
\* child, of the root of the child's inner subtree and of p's former
\* parent, and make the promoted child the root exactly when p was the root.
C19_RotationEffect ==
  [][\A p \in Reach(heap, root) :
       /\ (lastOp'.op = "rotate_left" /\ lastOp'.key = heap[p].key) =>
            /\ C19_Kept
            /\ C19_Links(p, heap[p].right, heap[heap[p].right].left, heap[p].parent)
            /\ heap'[p] = [heap[p] EXCEPT !.right = heap[heap[p].right].left,
                                          !.parent = heap[p].right]
            /\ heap'[heap[p].right] = [heap[heap[p].right] EXCEPT !.left = p,
                                                                  !.parent = heap[p].parent]
       /\ (lastOp'.op = "rotate_right" /\ lastOp'.key = heap[p].key) =>
            /\ C19_Kept
            /\ C19_Links(p, heap[p].left, heap[heap[p].left].right, heap[p].parent)
            /\ heap'[p] = [heap[p] EXCEPT !.left = heap[heap[p].left].right,
                                          !.parent = heap[p].left]
            /\ heap'[heap[p].left] = [heap[heap[p].left] EXCEPT !.right = p,
                                                                !.parent = heap[p].parent]
    ]_vars

\* After a rotate_right of a node that was not the root and whose left
\* child had a right subtree: the node now holds that subtree on its left
\* and its new parent has a parent.
C19_Witness ==
  /\ lastOp.op = "rotate_right"
  /\ \E p \in Reach(heap, root) :
       /\ heap[p].key = lastOp.key
       /\ heap[p].left # NULL
       /\ heap[p].parent # NULL
       /\ heap[heap[p].parent].right = p
       /\ heap[heap[p].parent].parent # NULL

(***************************************************************************)
(* Claims about the serialized tree, checked under RunSpec.                *)
(***************************************************************************)
\* The key of the last entry of the bulk-load input that is not an `f`.
C20_LastKey ==
  LET I == {i \in DOMAIN input.tree : input.tree[i].key # FKey}
  IN IF I = {} THEN Uninit
     ELSE input.tree[CHOOSE i \in I : \A j \in I : j <= i].key

\* S(n): the token of n, then S(n.left), then S(n.right); S of an absent
\* child is the marker, left out for the absent right child of the node
\* whose key is lastKey.
RECURSIVE C20_S(_, _, _, _)
C20_S(h, n, lastKey, fuel) ==
  IF fuel = 0 THEN <<>>
  ELSE IF n = NULL THEN <<FTok>>
  ELSE <<<<h[n].key, IF h[n].color = black THEN "b" ELSE "r">>>>
       \o C20_S(h, h[n].left, lastKey, fuel - 1)
       \o (IF h[n].right = NULL /\ h[n].key = lastKey THEN <<>>
           ELSE C20_S(h, h[n].right, lastKey, fuel - 1))

\* C20: the serialized string of a non-empty tree is S(root): each node's
\* token, then its left subtree or the marker of the absent left child,
\* then its right subtree or the marker of the absent right child, that
\* marker being left out only at the node holding the last key of the
\* bulk-load input.  Stated for the runs in which nothing undefined has
\* been read.
C20_PreOrderSerialization ==
  (main.pc = "done" /\ ~ub /\ root # NULL) =>
    results.final_rbt = C20_S(heap, root, C20_LastKey, MaxNodes + 2)

(***************************************************************************)
(* Further claims about the orchestrated run, checked under RunSpec.       *)
(***************************************************************************)
\* C21: in the orchestrated run no task ever waits in the monitor
\* (readers_wait and writers_wait stay 0 and no task stands at a wait), and
\* the run goes on to the final serialization: it is never ended before
\* main has serialized the tree.
C21_RunNeverBlocks ==
  /\ readers_wait = 0
  /\ writers_wait = 0
  /\ \A t \in DOMAIN pc : ~IsBlocked(t)
  /\ main.pc # "crashed"

\* The keys of the bulk-load input.
C22_InitialKeys == {input.tree[i].key : i \in DOMAIN input.tree} \ {FKey}

\* C22: a search task decides "found" only for a key of the bulk-loaded
\* tree, and once the reader tasks have been joined the result recorded for
\* each search that was run is "found" (its key is in search_true, which is
\* what write_output looks up) exactly when its key is a key of the
\* bulk-loaded tree, whatever the inserts and deletes of the input are.
C22_SearchesSeeInitialTree ==
  /\ \A t \in DOMAIN tdata :
       pc[t] \in {"push_true", "push_true_write"} => tdata[t].op.key \in C22_InitialKeys
  /\ main.pc \in {"spawn_writer", "join_writer", "serialize", "done"} =>
       \A i \in 1 .. main.s_thread_count :
         Count(results.search_true, input.searchers[i]) > 0
           <=> input.searchers[i] \in C22_InitialKeys

(***************************************************************************)
(* Claims about the links of the tree, checked under TreeSpec.             *)
(***************************************************************************)
\* C23: after the bulk load and after every completed insert_node or
\* delete_node the root has no parent, every node reachable from the root is
\* the parent of each child it has, no node is reachable by two paths (the
\* traversal visits as many nodes as there are reachable nodes), and every
\* reachable node is allocated: none destroyed by a delete is reachable.
C23_LinksConsistent ==
  /\ ~lastOp.fault
  /\ root # NULL => heap[root].parent = NULL
  /\ \A n \in Reach(heap, root) :
       /\ heap[n].left # NULL => heap[heap[n].left].parent = n
       /\ heap[n].right # NULL => heap[heap[n].right].parent = n
       /\ heap[n].left # NULL => heap[n].left # heap[n].right
  /\ Len(in_order(heap, root)) = Cardinality(Reach(heap, root))
  /\ Reach(heap, root) \subseteq alloc

\* After a delete_node that destroyed a node of a tree of four or more keys
\* and repaired the tree with two rotations.
C23_Witness ==
  /\ lastOp.op = "delete" /\ lastOp.found
  /\ lastOp.rots >= 2
  /\ Cardinality(lastOp.before) = Cardinality(KeysNow) + 1
  /\ Cardinality(alloc) = Cardinality(KeysNow)
  /\ Cardinality(KeysNow) >= 3

(***************************************************************************)
(* Claims about the deletion of a red leaf, checked under TreeSpec.        *)
(***************************************************************************)
\* The heap h after the leaf n has been unlinked from its parent and
\* destroyed, and nothing else has changed.
C24_Unlinked(h, n) ==
  [[h EXCEPT ![h[n].parent].left = IF @ = n THEN NULL ELSE @,
             ![h[n].parent].right = IF @ = n THEN NULL ELSE @]
     EXCEPT ![n] = FreeCell]

\* n is a red node without children below the root.
C24_RedLeaf(h, n) ==
  /\ n # root
  /\ h[n].color = red
  /\ h[n].left = NULL /\ h[n].right = NULL

\* The step from heap to heap' removes the red leaf n of the heap h: its
\* sibling is absent or red already, and the step unlinks and destroys n
\* and changes nothing else.
C24_OnlyUnlinks(h, n) ==
  /\ sibling(h, n) = NULL \/ h[sibling(h, n)].color = red
  /\ heap' = C24_Unlinked(h, n)
  /\ alloc' = alloc \ {n}
  /\ root' = root

\* C24: when delete_helper removes a red leaf below the root, be it the
\* node holding the key (first conjunct) or, for a node with two children,
\* its in-order successor after the keys have been swapped (second
\* conjunct), the leaf's sibling is absent or red, so that setting it red
\* changes no colour, and the deletion only unlinks and destroys the leaf.
C24_RedLeafDeletion ==
  [][\A p \in Reach(heap, root) :
       (lastOp'.op = "delete" /\ lastOp'.key = heap[p].key) =>
         /\ C24_RedLeaf(heap, p) => C24_OnlyUnlinks(heap, p)
         /\ (/\ heap[p].left # NULL /\ heap[p].right # NULL
             /\ C24_RedLeaf(heap, min(heap, heap[p].right))) =>
              C24_OnlyUnlinks(swap_keys(CurT, min(heap, heap[p].right), p).h,
                              min(heap, heap[p].right))
    ]_vars

\* After the delete of a red leaf whose red sibling is still there: a red
\* leaf s is the only child of its parent, and the deleted key was the
\* parent's neighbour in key order on the side that is now empty.
C24_Witness ==
  /\ lastOp.op = "delete" /\ lastOp.found
  /\ lastOp.dh = 1 /\ lastOp.fdb = <<>> /\ lastOp.rots = 0
  /\ \E s \in Reach(heap, root) :
       /\ C24_RedLeaf(heap, s)
       /\ heap[heap[s].parent].left = s
       /\ heap[heap[s].parent].right = NULL
       /\ lastOp.key > heap[heap[s].parent].key
       /\ \A x \in lastOp.before : ~(heap[heap[s].parent].key < x /\ x < lastOp.key)

====
